---- MODULE Spec2Model ----
(***************************************************************************)
(* A model of CommandCreator (src/slash.py): the command registry, the    *)
(* converter table, the error-handler slot, the invocation wrappers built  *)
(* by slash_command / message_command, _handle_error and generate_help.    *)
(*                                                                         *)
(* Python values are modelled as follows.  Types (the keys a converter is  *)
(* normally registered under, and parameter annotations) and parameter     *)
(* names are strings drawn from two disjoint sets ("int", "Interaction",   *)
(* "Context" against "a", "b", "ctx", ...), so that a type never equals a  *)
(* name, as in Python.  Argument values are integers; a context  *)
(* or interaction object is modelled by its identity, an integer outside   *)
(* the range of the argument values.  None as a description is the string  *)
(* NoneDesc; an optional alias list is a set holding at most one sequence  *)
(* (the empty set is None).                                                *)
(***************************************************************************)
EXTENDS Integers, Sequences, FiniteSets, TLC

\* ------------------------------------------------------------------ bounds
\* The framework passes at most MaxArgs positional arguments after the context.
MaxArgs == 2
\* A handler body replies to its context at most MaxHandlerReplies times.
MaxHandlerReplies == 1

\* ------------------------------------------------------------- value sets
None == "<None>"
NoneDesc == "<None>"
Empty == "<empty>"            \* inspect.Parameter.empty, as an annotation

\* One declared parameter of a handler.
Param(n, ann, hasDef, def) ==
    [name |-> n, annotation |-> ann, hasDefault |-> hasDef, default |-> def]

\* The handlers (user functions) that get registered.  add_slash is the
\* example handler of the source; the others are further user functions.
Funcs == {"add_slash", "roll", "ping", "relay"}

\* inspect.signature(func).parameters, in declaration order.
signature(func) ==
    CASE func = "add_slash" -> << Param("interaction", "Interaction", FALSE, 0),
                                  Param("a", "int", FALSE, 0),
                                  Param("b", "int", FALSE, 0) >>
      [] func = "roll"      -> << Param("ctx", "Context", FALSE, 0),
                                  Param("sides", "int", TRUE, 6) >>
      [] func = "ping"      -> << Param("ctx", Empty, FALSE, 0) >>
      [] func = "relay"     -> << Param("inter", Empty, FALSE, 0),
                                  Param("ctx", Empty, FALSE, 0) >>

\* The position of the parameter called n in sig, 0 when there is none.
IndexOf(sig, n) ==
    IF \E i \in 1..Len(sig) : sig[i].name = n
    THEN CHOOSE i \in 1..Len(sig) : sig[i].name = n
    ELSE 0

\* Python truthiness of a description (None and "" are falsy).
Truthy(description) == description # NoneDesc /\ description # ""

\* `aliases or []`: None and [] both give [].
OrEmptyList(aliases) ==
    IF aliases = {} THEN << >> ELSE CHOOSE s \in aliases : TRUE

\* ---------------------------------------------------------------- binding
\* sig.bind(ctx, *args, **kwargs) followed by bound.apply_defaults(): the
\* positional values fill the parameters in order, the keywords fill the
\* rest by name, defaults fill what is left.  TypeError when a positional
\* value has no parameter, a parameter gets two values, a keyword names no
\* parameter, or a parameter without default gets no value.  arguments is
\* kept in declaration order (position i holds the value of sig[i]).
bind(sig, ctx, args, kwargs) ==
    LET npos == Len(args) + 1
        pos(i) == IF i = 1 THEN ctx ELSE args[i - 1]
        tooMany == npos > Len(sig)
        twice == \E i \in 1..Len(sig) : i <= npos /\ sig[i].name \in DOMAIN kwargs
        unknown == \E k \in DOMAIN kwargs : IndexOf(sig, k) = 0
        missing == \E i \in 1..Len(sig) :
                       /\ i > npos
                       /\ sig[i].name \notin DOMAIN kwargs
                       /\ ~sig[i].hasDefault
    IN  IF tooMany \/ twice \/ unknown \/ missing
        THEN [ok |-> FALSE, error |-> "TypeError", arguments |-> << >>]
        ELSE [ok |-> TRUE, error |-> None,
              arguments |-> [i \in 1..Len(sig) |->
                   IF i <= npos THEN pos(i)
                   ELSE IF sig[i].name \in DOMAIN kwargs THEN kwargs[sig[i].name]
                   ELSE sig[i].default]]


\* ------------------------------------------------------------- conversion
\* The converter functions users register: double returns twice its input
\* (and fails on a value that is no number), raiser always fails.
ConverterFuncs == {"double", "raiser"}

Interactions == {101}          \* discord.Interaction objects (reply-once)
Contexts == {201}              \* commands.Context objects
CtxIds == Interactions \cup Contexts

\* converter(value): [ok, value] or [ok = FALSE, error].
ApplyConverter(conv, value) ==
    IF conv = "double" /\ value \notin CtxIds
    THEN [ok |-> TRUE, error |-> None, value |-> 2 * value]
    ELSE [ok |-> FALSE, error |-> "ConversionError", value |-> value]

\* The test that guards the conversion of one parameter: the parameter's
\* NAME is looked up among the keys of the converter table.
HasConverter(table, param) == param.name \in DOMAIN table

\* The loop over sig.parameters, from position i on: a parameter that
\* passes the guard is replaced by converters[param.annotation](value); a
\* missing key is a KeyError, a failing converter its own error.  The first
\* failure ends the loop.
RECURSIVE convert_from(_, _, _, _)
convert_from(table, sig, arguments, i) ==
    IF i > Len(sig) THEN [ok |-> TRUE, error |-> None, arguments |-> arguments]
    ELSE IF ~HasConverter(table, sig[i])
         THEN convert_from(table, sig, arguments, i + 1)
    ELSE IF sig[i].annotation \notin DOMAIN table
         THEN [ok |-> FALSE, error |-> "KeyError", arguments |-> arguments]
    ELSE LET r == ApplyConverter(table[sig[i].annotation], arguments[i])
         IN  IF ~r.ok
             THEN [ok |-> FALSE, error |-> r.error, arguments |-> arguments]
             ELSE convert_from(table, sig,
                               [arguments EXCEPT ![i] = r.value], i + 1)

apply_converters(table, sig, arguments) == convert_from(table, sig, arguments, 1)

\* ------------------------------------------------------------------ state
Names == {"add", "help"}                       \* command names
Descriptions == {NoneDesc, "", "Adds two numbers"}
MessageDescriptions == {NoneDesc, "Adds two numbers"}
AliasArgs == { {}, { << "sum", "plus" >> } }    \* None, or a list of aliases
ConverterKeys == {"int", "a"}                   \* a type, and a parameter name
ErrorHandlers == {"log_handler", "bad_handler"} \* bad_handler itself raises
Tasks == {"t1", "t2"}                           \* invocations by the framework

\* The i-th positional argument the framework passes after the context.
ArgValue(i) == IF i % 2 = 1 THEN 3 ELSE 4
ArgLists == { [i \in 1..k |-> ArgValue(i)] : k \in 0..MaxArgs }
KwargSets == { << >>, [n \in {"b"} |-> 4] }

VARIABLES
    commands,       \* self.commands: name -> record
    converters,     \* self.converters: key -> converter function
    error_handler,  \* self.error_handler: None or a handler
    lastReg,        \* history: name -> the arguments of its last registration
    replaced,       \* history: some registration replaced an existing record
    result,         \* what the latest call of the API returned or raised
    pc,             \* task -> position in the wrapper
    running,        \* the task executing between two awaits, or None
    inv,            \* task -> [func, ctx, args, kwargs] of its invocation
    bound,          \* task -> bound.arguments
    error,          \* task -> the exception caught by the wrapper, or None
    steps,          \* history: task -> the wrapper steps taken so far
    calledWith,     \* history: task -> arguments the handler was called with
    hreplies,       \* task -> replies sent by the handler body
    delivered,      \* history: task -> the calls of _handle_error
    propagated,     \* task -> exception that left the wrapper, or None
    startHandler,   \* history: task -> error_handler when the wrapper began
    replies         \* context -> messages it received

regvars == << commands, converters, error_handler, lastReg, replaced, result >>
taskvars == << pc, running, inv, bound, error, steps, calledWith, hreplies,
               delivered, propagated, startHandler >>
vars == << commands, converters, error_handler, lastReg, replaced, result, pc, running,
           inv, bound, error, steps, calledWith, hreplies, delivered,
           propagated, startHandler, replies >>

NoInv == [func |-> None, ctx |-> 0, args |-> << >>, kwargs |-> << >>]
Returned(value) == [raised |-> None, value |-> value]
Raised(exc) == [raised |-> exc, value |-> << >>]

Init ==
    /\ commands = << >>
    /\ converters = << >>
    /\ error_handler = None
    /\ lastReg = << >>
    /\ replaced = FALSE
    /\ result = Returned(<< >>)
    /\ pc = [t \in Tasks |-> "idle"]
    /\ running = None
    /\ inv = [t \in Tasks |-> NoInv]
    /\ bound = [t \in Tasks |-> << >>]
    /\ error = [t \in Tasks |-> None]
    /\ steps = [t \in Tasks |-> << >>]
    /\ calledWith = [t \in Tasks |-> << >>]
    /\ hreplies = [t \in Tasks |-> 0]
    /\ delivered = [t \in Tasks |-> << >>]
    /\ propagated = [t \in Tasks |-> None]
    /\ startHandler = [t \in Tasks |-> None]
    /\ replies = [c \in CtxIds |-> << >>]

\* Mutant of Put: dict.setdefault(key, value), which keeps an existing entry.
PutIfAbsent(dict, key, value) ==
    [k \in DOMAIN dict \cup {key} |->
        IF k \in DOMAIN dict THEN dict[k] ELSE value]

\* dict[key] = value
Put(dict, key, value) ==
    [k \in DOMAIN dict \cup {key} |-> IF k = key THEN value ELSE dict[k]]

\* ----------------------------------------------------- registration calls
\* self.converters[type_] = converter
register_converter(type_, converter) ==
    /\ running = None
    /\ converters' = Put(converters, type_, converter)
    /\ result' = Returned(<< >>)
    /\ UNCHANGED << commands, error_handler, lastReg, replaced, replies >>
    /\ UNCHANGED taskvars

\* self.error_handler = handler
set_error_handler(handler) ==
    /\ running = None
    /\ error_handler' = handler
    /\ result' = Returned(<< >>)
    /\ UNCHANGED << commands, converters, lastReg, replaced, replies >>
    /\ UNCHANGED taskvars

\* History of the registrations: the request last made for a name, and
\* whether a registered name was registered again.
Remember(name, req) ==
    /\ lastReg' = [n \in DOMAIN lastReg \cup {name} |->
                      IF n = name THEN req ELSE lastReg[n]]
    /\ replaced' = (replaced \/ name \in DOMAIN lastReg)

\* The record the slash decorator stores.
SlashRecord(description, func) ==
    [type |-> "slash", description |-> description, func |-> func]

\* The record the message decorator stores.
MessageRecord(aliases, description, func) ==
    [type |-> "message", aliases |-> OrEmptyList(aliases),
     description |-> description, func |-> func]

\* Mutant of slash_command: the description is not validated.
slash_command_unvalidated(name, description, func) ==
    /\ running = None
    /\ commands' = Put(commands, name, SlashRecord(description, func))
    /\ Remember(name, [kind |-> "slash", description |-> description,
                       aliases |-> {}, func |-> func])
    /\ result' = Returned(<< >>)
    /\ UNCHANGED << converters, error_handler, replies >>
    /\ UNCHANGED taskvars

\* slash_command(name, description)(func): the description is validated
\* before the decorator exists; the decorator stores the record.
slash_command(name, description, func) ==
    /\ running = None
    /\ IF ~Truthy(description)
       THEN /\ result' = Raised("ValueError")
            /\ UNCHANGED << commands, lastReg, replaced >>
       ELSE /\ commands' = Put(commands, name, SlashRecord(description, func))
            /\ Remember(name, [kind |-> "slash", description |-> description,
                               aliases |-> {}, func |-> func])
            /\ result' = Returned(<< >>)
    /\ UNCHANGED << converters, error_handler, replies >>
    /\ UNCHANGED taskvars

\* message_command(name, aliases, description)(func)
message_command(name, aliases, description, func) ==
    /\ running = None
    /\ commands' = Put(commands, name, MessageRecord(aliases, description, func))
    /\ Remember(name, [kind |-> "message", description |-> description,
                       aliases |-> aliases, func |-> func])
    /\ result' = Returned(<< >>)
    /\ UNCHANGED << converters, error_handler, replies >>
    /\ UNCHANGED taskvars

\* ------------------------------------------------------------ the wrapper
\* Both decorators build the same wrapper (slash_command passes an
\* Interaction, message_command a Context).  A wrapper runs without
\* interruption from its call up to the first await of the handler body:
\* running names the task that holds the event loop.

IsInteraction(ctx) == ctx \in Interactions     \* isinstance(ctx, discord.Interaction)
is_done(ctx) == replies[ctx] # << >>            \* ctx.response.is_done()

\* The framework calls the wrapper of a registered command.  Tasks are
\* numbered in the order the framework starts them.
Invoke(t, name, ctx, args, kwargs) ==
    /\ running = None
    /\ pc[t] = "idle"
    /\ t = "t1" \/ pc["t1"] # "idle"
    /\ name \in DOMAIN commands
    /\ IF commands[name].type = "slash" THEN ctx \in Interactions
                                        ELSE ctx \in Contexts
    /\ inv' = [inv EXCEPT ![t] = [func |-> commands[name].func, ctx |-> ctx,
                                  args |-> args, kwargs |-> kwargs]]
    /\ startHandler' = [startHandler EXCEPT ![t] = error_handler]
    /\ pc' = [pc EXCEPT ![t] = "bind"]
    /\ running' = t
    /\ UNCHANGED << bound, error, steps, calledWith, hreplies, delivered,
                    propagated, replies >>
    /\ UNCHANGED regvars

\* Mutant of Catch: the failure is not caught and leaves the wrapper.
PropagateUncaught(t, err, step) ==
    /\ error' = [error EXCEPT ![t] = err]
    /\ steps' = [steps EXCEPT ![t] = Append(@, step)]
    /\ pc' = [pc EXCEPT ![t] = "done"]
    /\ running' = None
    /\ propagated' = [propagated EXCEPT ![t] = err]

\* `except Exception as e`: the failure of a step inside the try block is
\* caught; control goes to the except clause with the event loop held.
Catch(t, err, step) ==
    /\ error' = [error EXCEPT ![t] = err]
    /\ steps' = [steps EXCEPT ![t] = Append(@, step)]
    /\ pc' = [pc EXCEPT ![t] = "except"]
    /\ running' = t
    /\ UNCHANGED propagated

\* sig = inspect.signature(func); bound = sig.bind(...); apply_defaults()
Bind(t) ==
    /\ pc[t] = "bind"
    /\ LET r == bind(signature(inv[t].func), inv[t].ctx, inv[t].args,
                     inv[t].kwargs)
       IN  IF r.ok
           THEN /\ bound' = [bound EXCEPT ![t] = r.arguments]
                /\ steps' = [steps EXCEPT ![t] = Append(@, "bind_ok")]
                /\ pc' = [pc EXCEPT ![t] = "convert"]
                /\ UNCHANGED << error, running, propagated >>
           ELSE /\ Catch(t, r.error, "bind_fail")
                /\ UNCHANGED bound
    /\ UNCHANGED << inv, calledWith, hreplies, delivered, startHandler,
                    replies >>
    /\ UNCHANGED regvars

\* Mutant of Convert: the handler is called although a conversion failed.
ConvertThenCallAnyway(t) ==
    /\ pc[t] = "convert"
    /\ LET r == apply_converters(converters, signature(inv[t].func), bound[t])
       IN  /\ bound' = [bound EXCEPT ![t] = r.arguments]
           /\ steps' = [steps EXCEPT ![t] =
                           Append(@, IF r.ok THEN "convert_ok" ELSE "convert_fail")]
           /\ pc' = [pc EXCEPT ![t] = "call"]
           /\ UNCHANGED << error, running, propagated >>
    /\ UNCHANGED << inv, calledWith, hreplies, delivered, startHandler,
                    replies >>
    /\ UNCHANGED regvars

\* The converter loop.
Convert(t) ==
    /\ pc[t] = "convert"
    /\ LET r == apply_converters(converters, signature(inv[t].func), bound[t])
       IN  IF r.ok
           THEN /\ bound' = [bound EXCEPT ![t] = r.arguments]
                /\ steps' = [steps EXCEPT ![t] = Append(@, "convert_ok")]
                /\ pc' = [pc EXCEPT ![t] = "call"]
                /\ UNCHANGED << error, running, propagated >>
           ELSE /\ Catch(t, r.error, "convert_fail")
                /\ UNCHANGED bound
    /\ UNCHANGED << inv, calledWith, hreplies, delivered, startHandler,
                    replies >>
    /\ UNCHANGED regvars

\* await func(*bound.args, **bound.kwargs): the handler body starts, and
\* gives up the event loop at its first await.
Call(t) ==
    /\ pc[t] = "call"
    /\ calledWith' = [calledWith EXCEPT ![t] = bound[t]]
    /\ steps' = [steps EXCEPT ![t] = Append(@, "call")]
    /\ pc' = [pc EXCEPT ![t] = "handler"]
    /\ running' = None
    /\ UNCHANGED << inv, bound, error, hreplies, delivered, propagated,
                    startHandler, replies >>
    /\ UNCHANGED regvars

\* The handler body replies to its context.  A second response to an
\* interaction fails inside the handler body.
HandlerReply(t) ==
    /\ running = None
    /\ pc[t] = "handler"
    /\ hreplies[t] < MaxHandlerReplies
    /\ IF IsInteraction(inv[t].ctx) /\ is_done(inv[t].ctx)
       THEN /\ Catch(t, "InteractionResponded", "handler_fail")
            /\ UNCHANGED << replies, hreplies >>
       ELSE /\ replies' = [replies EXCEPT ![inv[t].ctx] = Append(@, "handler reply")]
            /\ hreplies' = [hreplies EXCEPT ![t] = @ + 1]
            /\ UNCHANGED << error, steps, pc, running, propagated >>
    /\ UNCHANGED << inv, bound, calledWith, delivered, startHandler >>
    /\ UNCHANGED regvars

\* The handler body returns: the wrapper is over.
HandlerReturn(t) ==
    /\ running = None
    /\ pc[t] = "handler"
    /\ steps' = [steps EXCEPT ![t] = Append(@, "handler_return")]
    /\ pc' = [pc EXCEPT ![t] = "done"]
    /\ UNCHANGED << running, inv, bound, error, calledWith, hreplies,
                    delivered, propagated, startHandler, replies >>
    /\ UNCHANGED regvars

\* The handler body raises.
HandlerRaise(t) ==
    /\ running = None
    /\ pc[t] = "handler"
    /\ Catch(t, "HandlerError", "handler_fail")
    /\ UNCHANGED << inv, bound, calledWith, hreplies, delivered, startHandler,
                    replies >>
    /\ UNCHANGED regvars

\* ------------------------------------------------------- the error policy
\* Mutant of ActiveHandler: the handler installed when the wrapper began.
HandlerAtStart(t) == startHandler[t]

\* The handler _handle_error consults: the slot as it is when the error is
\* handled.
ActiveHandler(t) == error_handler

\* f"Error: {str(error)}"
ErrorMessage(err) == << "Error: ", err >>

\* Mutant of handle_error: the default policy replies without asking
\* whether the interaction was replied to.
handle_error_unguarded(handler, err, ctx) ==
    IF handler # None
    THEN [by |-> handler, send |-> << >>,
          raised |-> IF handler = "bad_handler" THEN "ErrorHandlerFailure" ELSE None]
    ELSE [by |-> "default", send |-> << ErrorMessage(err) >>, raised |-> None]

\* Mutant of handle_error: a failure of the custom handler is swallowed.
handle_error_swallowing(handler, err, ctx) ==
    IF handler # None
    THEN [by |-> handler, send |-> << >>, raised |-> None]
    ELSE IF IsInteraction(ctx) /\ is_done(ctx)
         THEN [by |-> "default", send |-> << >>, raised |-> None]
         ELSE [by |-> "default", send |-> << ErrorMessage(err) >>, raised |-> None]

\* _handle_error(error, ctx) with `handler` in the slot: what it sends to
\* ctx, who handled the error, and what it raises itself.
handle_error(handler, err, ctx) ==
    IF handler # None
    THEN [by |-> handler, send |-> << >>,
          raised |-> IF handler = "bad_handler" THEN "ErrorHandlerFailure" ELSE None]
    ELSE IF IsInteraction(ctx)
         THEN IF ~is_done(ctx)
              THEN [by |-> "default", send |-> << ErrorMessage(err) >>, raised |-> None]
              ELSE [by |-> "default", send |-> << >>, raised |-> None]
         ELSE [by |-> "default", send |-> << ErrorMessage(err) >>, raised |-> None]

\* except Exception as e: await self._handle_error(e, ctx)
HandleError(t) ==
    /\ pc[t] = "except"
    /\ LET r == handle_error(ActiveHandler(t), error[t], inv[t].ctx)
       IN  /\ delivered' = [delivered EXCEPT ![t] =
                  Append(@, [by |-> r.by, error |-> error[t], ctx |-> inv[t].ctx])]
           /\ replies' = [replies EXCEPT ![inv[t].ctx] = @ \o r.send]
           /\ propagated' = [propagated EXCEPT ![t] = r.raised]
    /\ steps' = [steps EXCEPT ![t] = Append(@, "error_policy")]
    /\ pc' = [pc EXCEPT ![t] = "done"]
    /\ running' = None
    /\ UNCHANGED << inv, bound, error, calledWith, hreplies, startHandler >>
    /\ UNCHANGED regvars

\* ------------------------------------------------------- help generation
Line(tag, text) == [tag |-> tag, text |-> text]

\* param.annotation.__name__, or 'Any' for an undeclared type
TypeLabel(annotation) == IF annotation # Empty THEN annotation ELSE "Any"

\* "Required", or f"Optional (default: {default})"
DefaultStr(param) ==
    IF ~param.hasDefault THEN << "Required" >>
    ELSE << "Optional (default: ", ToString(param.default), ")" >>

\* The parameters the argument loop skips.
Skipped(param) == param.name \in {"self", "ctx", "interaction"}

\* The test that opens the "Arguments:" section.
HasArguments(sig) == Len(sig) > 1

\* f"- `{name}`: {param_type} ({default_str}){converter_note}"
ArgLine(table, param) ==
    Line("arg", << param.name, TypeLabel(param.annotation) >>
                \o DefaultStr(param)
                \o (IF param.annotation \in DOMAIN table
                    THEN << " (Custom converter available)" >> ELSE << >>))

\* The lines the loop over params.items() appends, from position i on.
RECURSIVE ArgLines(_, _, _)
ArgLines(table, sig, i) ==
    IF i > Len(sig) THEN << >>
    ELSE IF Skipped(sig[i]) THEN ArgLines(table, sig, i + 1)
    ELSE << ArgLine(table, sig[i]) >> \o ArgLines(table, sig, i + 1)

\* Mutant of KindLines: the aliases line comes before the description line.
KindLinesAliasesFirst(command_data) ==
    << Line("type", << IF command_data.type = "slash" THEN "Slash Command"
                       ELSE "Message Command" >>) >>
    \o (IF "aliases" \in DOMAIN command_data /\ command_data.aliases # << >>
        THEN << Line("aliases", command_data.aliases) >> ELSE << >>)
    \o (IF Truthy(command_data.description)
        THEN << Line("description", << command_data.description >>) >>
        ELSE << >>)

\* The type, description and alias lines of a record.
KindLines(command_data) ==
    IF command_data.type = "slash"
    THEN << Line("type", << "Slash Command" >>) >>
         \o (IF "description" \in DOMAIN command_data
                /\ Truthy(command_data.description)
             THEN << Line("description", << command_data.description >>) >>
             ELSE << >>)
    ELSE IF command_data.type = "message"
    THEN << Line("type", << "Message Command" >>) >>
         \o (IF "description" \in DOMAIN command_data
                /\ Truthy(command_data.description)
             THEN << Line("description", << command_data.description >>) >>
             ELSE << >>)
         \o (IF "aliases" \in DOMAIN command_data
                /\ command_data.aliases # << >>
             THEN << Line("aliases", command_data.aliases) >>
             ELSE << >>)
    ELSE << >>

\* generate_help(command_name) on a registry and a converter table: the
\* lines of the message, in order ("\n".join(help_message)).
help_lines(registry, table, command_name) ==
    IF command_name \notin DOMAIN registry
    THEN << Line("not_found", << "Command not found." >>) >>
    ELSE LET command_data == registry[command_name]
             sig == signature(command_data.func)
         IN  << Line("header", << command_name >>) >>
             \o KindLines(command_data)
             \o (IF HasArguments(sig)
                 THEN << Line("arguments", << "\nArguments:" >>) >>
                      \o ArgLines(table, sig, 1)
                 ELSE << >>)

\* A call of generate_help(command_name).
generate_help(command_name) ==
    /\ running = None
    /\ result' = Returned(help_lines(commands, converters, command_name))
    /\ UNCHANGED << commands, converters, error_handler, lastReg, replaced,
                    replies >>
    /\ UNCHANGED taskvars

\* ---------------------------------------------------------- specifications
\* The registry interface, from the state __init__ leaves: converters, the
\* two registration decorators and generate_help, with every combination of
\* their arguments.  (The error handler plays no part in them; it is
\* exercised by the dispatch specification.)
HelpNames == Names \cup {"missing"}

NextSetup ==
    \/ \E k \in ConverterKeys, c \in ConverterFuncs : register_converter(k, c)
    \/ \E n \in Names, d \in Descriptions, f \in Funcs : slash_command(n, d, f)
    \/ \E n \in Names, a \in AliasArgs, d \in MessageDescriptions, f \in Funcs :
           message_command(n, a, d, f)
    \/ \E n \in HelpNames : generate_help(n)

SpecSetup == Init /\ [][NextSetup]_vars

\* Dispatch: the framework invokes the wrappers of a registry and a
\* converter table built at startup, concurrently, while the error handler
\* may still be replaced.
RecordOf(req) ==
    IF req.kind = "slash" THEN SlashRecord(req.description, req.func)
    ELSE MessageRecord(req.aliases, req.description, req.func)

SlashReq(d, f) == [kind |-> "slash", description |-> d, aliases |-> {}, func |-> f]
MessageReq(a, d, f) == [kind |-> "message", description |-> d, aliases |-> a, func |-> f]

\* Registries left by the registration calls of a startup.
StartupRegistrations ==
    { [n \in {"add", "help"} |->
          IF n = "add" THEN SlashReq("Adds two numbers", "add_slash")
                       ELSE MessageReq({ << "sum", "plus" >> }, NoneDesc, "roll")],
      [n \in {"add", "help"} |->
          IF n = "add" THEN MessageReq({}, "Adds two numbers", "add_slash")
                       ELSE SlashReq("Adds two numbers", "relay")] }

\* Converter tables left by the register_converter calls of a startup.
StartupConverters ==
    UNION { [K -> ConverterFuncs] : K \in SUBSET ConverterKeys }

InitDispatch ==
    /\ lastReg \in StartupRegistrations
    /\ replaced = FALSE
    /\ commands = [n \in DOMAIN lastReg |-> RecordOf(lastReg[n])]
    /\ converters \in StartupConverters
    /\ error_handler = None
    /\ result = Returned(<< >>)
    /\ pc = [t \in Tasks |-> "idle"]
    /\ running = None
    /\ inv = [t \in Tasks |-> NoInv]
    /\ bound = [t \in Tasks |-> << >>]
    /\ error = [t \in Tasks |-> None]
    /\ steps = [t \in Tasks |-> << >>]
    /\ calledWith = [t \in Tasks |-> << >>]
    /\ hreplies = [t \in Tasks |-> 0]
    /\ delivered = [t \in Tasks |-> << >>]
    /\ propagated = [t \in Tasks |-> None]
    /\ startHandler = [t \in Tasks |-> None]
    /\ replies = [c \in CtxIds |-> << >>]

NextDispatch ==
    \/ \E h \in ErrorHandlers : set_error_handler(h)
    \/ \E t \in Tasks, n \in Names, c \in CtxIds, a \in ArgLists, k \in KwargSets :
           Invoke(t, n, c, a, k)
    \/ \E t \in Tasks : Bind(t)
    \/ \E t \in Tasks : Convert(t)
    \/ \E t \in Tasks : Call(t)
    \/ \E t \in Tasks : HandlerReply(t)
    \/ \E t \in Tasks : HandlerReturn(t)
    \/ \E t \in Tasks : HandlerRaise(t)
    \/ \E t \in Tasks : HandleError(t)

SpecDispatch == InitDispatch /\ [][NextDispatch]_vars

\* ------------------------------------------------------------- properties
\* The name under which the error policy records who handled an error.
Policy(handler) == IF handler = None THEN "default" ELSE handler

\* Task t takes the step from the except clause through _handle_error.
ErrorHandled(t) == pc[t] = "except" /\ pc'[t] = "done"

\* The lines of a help message that carry the given tag.
Tagged(out, tag) == SelectSeq(out, LAMBDA l : l.tag = tag)

\* C1: every bound parameter whose declared type has a converter reaches the
\* handler as converter(value); in particular add_slash(interaction, a: int,
\* b: int) with a doubling converter for int, invoked with (3, 4), is called
\* with (interaction, 6, 8).
C1_ConvertsByDeclaredType ==
    \A t \in Tasks : calledWith[t] # << >> =>
        LET sig == signature(inv[t].func)
            b == bind(sig, inv[t].ctx, inv[t].args, inv[t].kwargs)
        IN  /\ \A i \in 1..Len(sig) :
                   sig[i].annotation \in DOMAIN converters =>
                       LET r == ApplyConverter(converters[sig[i].annotation],
                                               b.arguments[i])
                       IN  r.ok /\ calledWith[t][i] = r.value
            /\ ( /\ inv[t].func = "add_slash"
                 /\ inv[t].args = << 3, 4 >>
                 /\ "int" \in DOMAIN converters
                 /\ converters["int"] = "double" )
               => calledWith[t] = << inv[t].ctx, 6, 8 >>

\* C2: a failure of binding, of a converter or of the handler body never
\* leaves the wrapper; whatever its kind it is delivered once to the error
\* policy, with the context of the invocation.
C2_FailuresReachErrorPolicy ==
    \A t \in Tasks :
        /\ propagated[t] \in {None, "ErrorHandlerFailure"}
        /\ (pc[t] = "done" /\ error[t] # None) =>
               /\ Len(delivered[t]) = 1
               /\ delivered[t][1].error = error[t]
               /\ delivered[t][1].ctx = inv[t].ctx
        /\ (pc[t] = "done" /\ \E k \in 1..Len(steps[t]) :
                   steps[t][k] \in {"bind_fail", "convert_fail", "handler_fail"})
               => /\ error[t] \in {"TypeError", "KeyError", "ConversionError",
                                   "HandlerError", "InteractionResponded"}
                  /\ steps[t][Len(steps[t])] = "error_policy"

\* C2 witness: two invocations have ended, one failed in a converter and one
\* in argument binding or in the handler body, and each was delivered.
C2_Witness ==
    \E t, u \in Tasks :
        /\ pc[t] = "done" /\ pc[u] = "done"
        /\ error[t] = "ConversionError"
        /\ error[u] \in {"TypeError", "HandlerError"}
        /\ Len(delivered[t]) = 1 /\ Len(delivered[u]) = 1

\* C3: slash_command with an empty or absent description raises ValueError
\* to its caller, changes neither the registry nor the converter table nor
\* the error-handler slot, and does not reach the error policy.
C3_InvalidSlashRejected ==
    [][ \A n \in Names, d \in Descriptions, f \in Funcs :
            (~Truthy(d) /\ slash_command(n, d, f)) =>
                /\ result' = Raised("ValueError")
                /\ UNCHANGED << commands, converters, error_handler,
                                delivered, replies >> ]_vars

\* C3 witness: a slash_command call was rejected while a command is registered.
C3_Witness ==
    /\ result = Raised("ValueError")
    /\ commands # << >>
    /\ converters # << >>

\* C4: without a custom handler the error policy sends the one reply
\* "Error: <message>" to the context, except to an interaction that was
\* already replied to, where it sends and raises nothing; an interaction never
\* holds more than one reply.
C4_DefaultPolicyRepliesOnce ==
    [][ /\ \A t \in Tasks : (ErrorHandled(t) /\ error_handler = None) =>
               /\ propagated'[t] = None
               /\ replies' =
                     IF inv[t].ctx \in Interactions /\ replies[inv[t].ctx] # << >>
                     THEN replies
                     ELSE [replies EXCEPT ![inv[t].ctx] =
                               Append(@, << "Error: ", error[t] >>)]
        /\ \A i \in Interactions : Len(replies'[i]) <= 1 ]_vars

\* C4 witness: two failing invocations on one interaction were both handled
\* by the default policy, and the interaction holds one reply.
C4_Witness ==
    \E t, u \in Tasks :
        /\ t # u
        /\ pc[t] = "done" /\ pc[u] = "done"
        /\ inv[t].ctx \in Interactions /\ inv[u].ctx = inv[t].ctx
        /\ Len(delivered[t]) = 1 /\ delivered[t][1].by = "default"
        /\ Len(delivered[u]) = 1 /\ delivered[u][1].by = "default"
        /\ calledWith[t] = << >> /\ calledWith[u] = << >>
        /\ Len(replies[inv[t].ctx]) = 1
        /\ propagated[t] = None /\ propagated[u] = None

\* C5 as claimed: an error is delivered to the handler that was installed
\* when its invocation began.
C5_DeliveredToHandlerAtStart ==
    \A t \in Tasks : \A k \in 1..Len(delivered[t]) :
        startHandler[t] # None => delivered[t][k].by = startHandler[t]

\* C5 amended: an error is delivered to the handler installed when the error
\* is handled, also when the invocation began under another handler.
C5_DeliveredToHandlerAtFailure ==
    [][ \A t \in Tasks : ErrorHandled(t) =>
            delivered'[t] = Append(delivered[t],
                [by |-> Policy(error_handler), error |-> error[t],
                 ctx |-> inv[t].ctx]) ]_vars

\* C5 witness: an invocation that began under one handler failed after the
\* handler was replaced, and the new handler received the error.
C5_Witness ==
    \E t \in Tasks :
        /\ pc[t] = "done"
        /\ startHandler[t] # None
        /\ Len(delivered[t]) = 1
        /\ delivered[t][1].by \in ErrorHandlers
        /\ delivered[t][1].by # startHandler[t]
        /\ Len(steps[t]) = 5
        /\ steps[t][4] = "handler_fail"

\* C6: the registry holds, for each name ever registered, exactly the record
\* of the last registration of that name: its kind, description, aliases and
\* handler, and nothing of an earlier record.
C6_LastRegistrationWins ==
    /\ DOMAIN commands = DOMAIN lastReg
    /\ \A n \in DOMAIN commands :
           commands[n] =
               IF lastReg[n].kind = "slash"
               THEN [type |-> "slash", description |-> lastReg[n].description,
                     func |-> lastReg[n].func]
               ELSE [type |-> "message",
                     aliases |-> IF lastReg[n].aliases = { << "sum", "plus" >> }
                                 THEN << "sum", "plus" >> ELSE << >>,
                     description |-> lastReg[n].description,
                     func |-> lastReg[n].func]

\* C6 witness: a name was registered again, and a slash record (which has no
\* aliases) and a message record are in the registry.
C6_Witness ==
    /\ replaced
    /\ DOMAIN commands = Names
    /\ commands["add"].type = "slash"
    /\ commands["help"].type = "message"

\* C7: generate_help emits the "Arguments:" section exactly when the handler
\* has a parameter besides its leading context parameter, and the section
\* lists exactly the parameters after the leading one, in declaration order.
C7_ArgumentsSection ==
    [][ \A n \in Names :
          (n \in DOMAIN commands /\ result'.value # << >> /\ generate_help(n)) =>
            LET sig == signature(commands[n].func)
                out == result'.value
                args == Tagged(out, "arg")
            IN  /\ Len(Tagged(out, "arguments")) = (IF Len(sig) > 1 THEN 1 ELSE 0)
                /\ Len(args) = Len(sig) - 1
                /\ \A j \in 1..Len(args) : args[j].text[1] = sig[j + 1].name ]_vars

\* C8: the lines of a help message come in the order header, type,
\* description, aliases, arguments; the description line is there exactly
\* when a description was supplied, the aliases line exactly for a message
\* command registered with a non-empty alias list.
C8_HelpLineOrder ==
    [][ \A n \in Names :
          (n \in DOMAIN commands /\ result'.value # << >> /\ generate_help(n)) =>
            LET req == lastReg[n]
                out == result'.value
                head == << [tag |-> "header", text |-> << n >>],
                           [tag |-> "type",
                            text |-> IF req.kind = "slash"
                                     THEN << "Slash Command" >>
                                     ELSE << "Message Command" >>] >>
                        \o (IF req.description \notin {NoneDesc, ""}
                            THEN << [tag |-> "description",
                                     text |-> << req.description >>] >>
                            ELSE << >>)
                        \o (IF req.kind = "message"
                               /\ req.aliases = { << "sum", "plus" >> }
                            THEN << [tag |-> "aliases",
                                     text |-> << "sum", "plus" >>] >>
                            ELSE << >>)
            IN  /\ Len(out) >= Len(head)
                /\ SubSeq(out, 1, Len(head)) = head
                /\ \A j \in (Len(head) + 1)..Len(out) :
                       out[j].tag = IF j = Len(head) + 1 THEN "arguments"
                                                         ELSE "arg" ]_vars

\* C8 witness: the help of a message command with aliases sum, plus and no
\* description, with an arguments section.
C8_Witness ==
    /\ result.raised = None
    /\ Len(result.value) >= 5
    /\ result.value[2] = [tag |-> "type", text |-> << "Message Command" >>]
    /\ result.value[3] = [tag |-> "aliases", text |-> << "sum", "plus" >>]
    /\ result.value[4].tag = "arguments"

\* C9: with a custom handler installed, a failure is handed to that handler
\* once, with the error and the context; the default reply is not sent; and
\* a failure of the handler itself leaves the wrapper.
C9_CustomHandlerIsSoleSink ==
    [][ \A t \in Tasks : (ErrorHandled(t) /\ error_handler # None) =>
            /\ delivered[t] = << >>
            /\ delivered'[t] = << [by |-> error_handler, error |-> error[t],
                                   ctx |-> inv[t].ctx] >>
            /\ replies' = replies
            /\ propagated'[t] = IF error_handler = "bad_handler"
                                THEN "ErrorHandlerFailure" ELSE None ]_vars

\* C9 witness: the installed handler failed on an error of the handler body
\* and its failure left the wrapper.
C9_Witness ==
    \E t \in Tasks :
        /\ pc[t] = "done"
        /\ error[t] = "HandlerError"
        /\ delivered[t] = << [by |-> "bad_handler", error |-> "HandlerError",
                              ctx |-> inv[t].ctx] >>
        /\ propagated[t] = "ErrorHandlerFailure"

\* The complete runs of a wrapper.
WrapperRuns ==
    { << "bind_fail", "error_policy" >>,
      << "bind_ok", "convert_fail", "error_policy" >>,
      << "bind_ok", "convert_ok", "call", "handler_return" >>,
      << "bind_ok", "convert_ok", "call", "handler_fail", "error_policy" >> }

\* C10: a wrapper binds, then converts, then calls the handler; the handler
\* body starts at most once and only with the arguments of a successful
\* binding and conversion; the error policy runs at most once and only after
\* a failed step; registry and converter table stay as they are.
C10_BindConvertCallInOrder ==
    [][ /\ \A t \in Tasks :
             << steps'[t], delivered'[t], calledWith'[t] >>
                 # << steps[t], delivered[t], calledWith[t] >> =>
               /\ \E run \in WrapperRuns :
                      /\ Len(steps'[t]) <= Len(run)
                      /\ steps'[t] = SubSeq(run, 1, Len(steps'[t]))
               /\ Len(delivered'[t]) =
                      Len(SelectSeq(steps'[t], LAMBDA x : x = "error_policy"))
               /\ calledWith'[t] # calledWith[t] =>
                      LET sig == signature(inv'[t].func)
                          b == bind(sig, inv'[t].ctx, inv'[t].args, inv'[t].kwargs)
                          c == apply_converters(converters', sig, b.arguments)
                      IN  b.ok /\ c.ok /\ calledWith'[t] = c.arguments
        /\ (\E t \in Tasks : pc'[t] # pc[t]) =>
               UNCHANGED << commands, converters >> ]_vars

\* C10 witness: a handler body ran after a conversion that changed an
\* argument, failed, and the error policy ran.
C10_Witness ==
    \E t \in Tasks :
        /\ steps[t] = << "bind_ok", "convert_ok", "call", "handler_fail",
                         "error_policy" >>
        /\ inv[t].args = << 3, 4 >>
        /\ calledWith[t] = << inv[t].ctx, 6, 4 >>

====
